---- MODULE Spec2Model ----
(***************************************************************************)
(* Model of src/assert_err_eq.rs: the macros assert_err_eq! and            *)
(* debug_assert_err_eq!.                                                   *)
(*                                                                         *)
(* A macro call is modelled by the run of its expansion: the sequence of   *)
(* events it performs (evaluating $cond, evaluating $expected, comparing,  *)
(* formatting the custom message, panicking), whether it panics, the panic *)
(* message and the value of the call.  Text is a sequence of tokens.       *)
(*                                                                         *)
(* The build is fixed by three choices made before the program runs:       *)
(*   rustc_1_11        cfg flag selecting one of the two assert_err_eq     *)
(*   debug_assertions  cfg!(debug_assertions)                              *)
(*   std_fmt           the layout of the report of std's assert_eq!        *)
(***************************************************************************)
EXTENDS Integers, Sequences, FiniteSets, TLC

VARIABLES rustc_1_11, debug_assertions, std_fmt, call, out, alive

vars == <<rustc_1_11, debug_assertions, std_fmt, call, out, alive>>

\* Payloads of Err and expected values range over -MaxVal..MaxVal.
MaxVal == 2

\* Values are tagged with their type: i32 or the unit type.
I32(n) == [ty |-> "i32", n |-> n]

\* The unit value (), payload of Ok in the doc examples and value of a block
\* whose last statement ends in a semicolon.
Unit == [ty |-> "()"]

Vals == {I32(n) : n \in (-MaxVal)..MaxVal}

\* Result<T, E> values: Ok carries an integer or (), Err carries an integer.
Ok(v) == [tag |-> "Ok", val |-> v]

Err(e) == [tag |-> "Err", val |-> e]

Results == {Ok(v) : v \in Vals \cup {Unit}} \cup {Err(e) : e \in Vals}

\* Custom messages: the tokens $($arg)+ of the third arm, a format string cut
\* into literal pieces and "{:?}" placeholders, and its integer arguments.
NoMsg == [fmt |-> <<>>, args |-> <<>>]

Msgs == {[fmt |-> <<"foo">>, args |-> <<>>]}
          \cup {[fmt |-> <<"Everything is good with ", "{:?}">>, args |-> <<n>>] : n \in Vals}

Forms == {"plain", "trailing", "message"}

StdFmts == {"legacy", "modern"}

(***************************************************************************)
(* Formatting (std::fmt).                                                  *)
(***************************************************************************)
DigitOf(d) == CASE d = 0 -> "0" [] d = 1 -> "1" [] d = 2 -> "2" [] d = 3 -> "3"
                [] d = 4 -> "4" [] d = 5 -> "5" [] d = 6 -> "6" [] d = 7 -> "7"
                [] d = 8 -> "8" [] d = 9 -> "9"

RECURSIVE Digits(_)
Digits(n) == IF n < 10 THEN <<DigitOf(n)>> ELSE Digits(n \div 10) \o <<DigitOf(n % 10)>>

\* {:?} of an integer or of ().
DebugVal(v) == IF v.ty = "()" THEN <<"(", ")">>
               ELSE IF v.n < 0 THEN <<"-">> \o Digits(-v.n) ELSE Digits(v.n)

\* {:?} of a Result: the variant name around the payload.
DebugResult(r) == <<r.tag, "(">> \o DebugVal(r.val) \o <<")">>

\* format_args!($($arg)+): each placeholder takes the next argument.
RECURSIVE FormatArgs(_, _)
FormatArgs(fmt, args) ==
    IF fmt = <<>> THEN <<>>
    ELSE IF Head(fmt) = "{:?}"
         THEN DebugVal(Head(args)) \o FormatArgs(Tail(fmt), Tail(args))
         ELSE <<Head(fmt)>> \o FormatArgs(Tail(fmt), args)

Format(msg) == FormatArgs(msg.fmt, msg.args)

\* The report of std's assert_eq!(left, right[, msg]) when left != right.
\* The grave accents of the report are written ' here.
AssertEqReport(left, right, msg, layout) ==
    IF layout = "modern"
    THEN <<"assertion 'left == right' failed">>
           \o (IF msg = NoMsg THEN <<>> ELSE <<": ">> \o Format(msg))
           \o <<"\n  left: ">> \o DebugVal(left)
           \o <<"\n right: ">> \o DebugVal(right)
    ELSE <<"assertion failed: '(left == right)'">>
           \o <<"\n  left: '">> \o DebugVal(left) \o <<"',">>
           \o <<"\n right: '">> \o DebugVal(right) \o <<"'">>
           \o (IF msg = NoMsg THEN <<>> ELSE <<": ">> \o Format(msg))

(***************************************************************************)
(* Runs of an expansion.                                                   *)
(***************************************************************************)
Returned(events, v) ==
    [events |-> events, panicked |-> FALSE, value |-> v, message |-> <<>>]

Panicked(events, m) ==
    [events |-> events \o <<"panic">>, panicked |-> TRUE, value |-> Unit, message |-> m]

\* Variant of ErrArm without the final `t`: the arm has the value ().
ErrArm_NoValue(t, expected, msg, layout) ==
    IF t = expected
    THEN Returned(<<"eval_cond", "eval_expected", "compare">>, Unit)
    ELSE Panicked(<<"eval_cond", "eval_expected", "compare">>
                    \o (IF msg = NoMsg THEN <<>> ELSE <<"format_args">>),
                  AssertEqReport(t, expected, msg, layout))

\* Variant of ErrArm that checks with assert!(t == $expected) instead.
ErrArm_Assert(t, expected, msg, layout) ==
    IF t = expected
    THEN Returned(<<"eval_cond", "eval_expected", "compare">>, t)
    ELSE Panicked(<<"eval_cond", "eval_expected", "compare">>
                    \o (IF msg = NoMsg THEN <<>> ELSE <<"format_args">>),
                  <<"assertion failed: ", "t == expected">>
                    \o (IF msg = NoMsg THEN <<>> ELSE <<": ">> \o Format(msg)))

\* assert_eq!(t, $expected[, $($arg)+]); t
ErrArm(t, expected, msg, layout) ==
    IF t = expected
    THEN Returned(<<"eval_cond", "eval_expected", "compare">>, t)
    ELSE Panicked(<<"eval_cond", "eval_expected", "compare">>
                    \o (IF msg = NoMsg THEN <<>> ELSE <<"format_args">>),
                  AssertEqReport(t, expected, msg, layout))

\* Variant of OkArm that binds and prints the payload of Ok, not the Result.
OkArm_PayloadOnly(ok) ==
    Panicked(<<"eval_cond">>,
             <<"assertion failed, ", "expected Err(..)", ", got ">> \o DebugVal(ok.val))

\* panic!("assertion failed, expected Err(..), got {:?}", ok)
OkArm(ok) ==
    Panicked(<<"eval_cond">>,
             <<"assertion failed, ", "expected Err(..)", ", got ">> \o DebugResult(ok))

\* Variant of OkArmMsg whose format string has a space for the ": ".
OkArmMsg_NoSep(ok, msg) ==
    Panicked(<<"eval_cond", "format_args">>,
             <<"assertion failed, ", "expected Err(..)", ", got ">> \o DebugResult(ok)
               \o <<" ">> \o Format(msg))

\* panic!("assertion failed, expected Err(..), got {:?}: {}", ok, format_args!(..))
OkArmMsg(ok, msg) ==
    Panicked(<<"eval_cond", "format_args">>,
             <<"assertion failed, ", "expected Err(..)", ", got ">> \o DebugResult(ok)
               \o <<": ">> \o Format(msg))

\* Variant of PlainArm that tests $cond.is_err() before matching on $cond.
PlainArm_DoubleEval(cond, expected, layout) ==
    IF cond.tag = "Err"
    THEN [ErrArm(cond.val, expected, NoMsg, layout) EXCEPT !.events = <<"eval_cond">> \o @]
    ELSE [OkArm(cond) EXCEPT !.events = <<"eval_cond">> \o @]

\* ($cond:expr, $expected:expr) => { match $cond { .. } }
PlainArm(cond, expected, layout) ==
    IF cond.tag = "Err" THEN ErrArm(cond.val, expected, NoMsg, layout)
    ELSE OkArm(cond)

\* Variant of TrailingCommaArm whose inner call is a statement of a block.
TrailingCommaArm_Stmt(cond, expected, layout) ==
    [PlainArm(cond, expected, layout) EXCEPT !.value = Unit]

\* ($cond:expr, $expected:expr,) => { $crate::assert_err_eq!($cond, $expected); }
\* In expression position the expander drops the trailing semicolon of the
\* expansion, so the call has the value of the inner call.
TrailingCommaArm(cond, expected, layout) == PlainArm(cond, expected, layout)

\* Variant of MessageArm_1_11 that calls assert_eq! without $($arg)+.
MessageArm_1_11_NoForward(cond, expected, msg, layout) ==
    IF cond.tag = "Err" THEN ErrArm(cond.val, expected, NoMsg, layout)
    ELSE OkArmMsg(cond, msg)

\* #[cfg(rustc_1_11)] ($cond:expr, $expected:expr, $($arg:tt)+)
MessageArm_1_11(cond, expected, msg, layout) ==
    IF cond.tag = "Err" THEN ErrArm(cond.val, expected, msg, layout)
    ELSE OkArmMsg(cond, msg)

\* Variant of MessageArm_pre_1_11 that drops $($arg)+ in the Ok arm too.
MessageArm_pre_1_11_OkNoMsg(cond, expected, msg, layout) ==
    IF cond.tag = "Err" THEN ErrArm(cond.val, expected, NoMsg, layout)
    ELSE OkArm(cond)

\* #[cfg(not(rustc_1_11))] ($cond:expr, $expected:expr, $($arg:tt)+)
MessageArm_pre_1_11(cond, expected, msg, layout) ==
    IF cond.tag = "Err" THEN ErrArm(cond.val, expected, NoMsg, layout)
    ELSE OkArmMsg(cond, msg)

\* macro_rules! assert_err_eq under the given value of the cfg flag.
assert_err_eq(flag, form, cond, expected, msg, layout) ==
    CASE form = "trailing" -> TrailingCommaArm(cond, expected, layout)
      [] form = "plain"    -> PlainArm(cond, expected, layout)
      [] form = "message"  -> IF flag THEN MessageArm_1_11(cond, expected, msg, layout)
                                      ELSE MessageArm_pre_1_11(cond, expected, msg, layout)

\* Variant of debug_assert_err_eq without the cfg!(debug_assertions) test.
debug_assert_err_eq_Ungated(dbg, flag, form, cond, expected, msg, layout) ==
    [assert_err_eq(flag, form, cond, expected, msg, layout) EXCEPT !.value = Unit]

\* Variant of debug_assert_err_eq with the cfg!(debug_assertions) test negated.
debug_assert_err_eq_Inverted(dbg, flag, form, cond, expected, msg, layout) ==
    IF ~dbg
    THEN [assert_err_eq(flag, form, cond, expected, msg, layout) EXCEPT !.value = Unit]
    ELSE Returned(<<>>, Unit)

\* if cfg!(debug_assertions) { $crate::assert_err_eq!($($arg)*); }
\* The inner call is a statement of the block, so the if expression has the value ().
debug_assert_err_eq(dbg, flag, form, cond, expected, msg, layout) ==
    IF dbg
    THEN [assert_err_eq(flag, form, cond, expected, msg, layout) EXCEPT !.value = Unit]
    ELSE Returned(<<>>, Unit)

(***************************************************************************)
(* The program: a thread that calls the macros until one of them panics.   *)
(***************************************************************************)
NoCall == [macro |-> "none"]

NoOut == Returned(<<>>, Unit)

MsgsOf(form) == IF form = "message" THEN Msgs ELSE {NoMsg}

Init ==
    /\ rustc_1_11 \in BOOLEAN
    /\ debug_assertions \in BOOLEAN
    /\ std_fmt \in StdFmts
    /\ call = NoCall
    /\ out = NoOut
    /\ alive = TRUE

CallAssertErrEq ==
    /\ alive
    /\ \E form \in Forms, cond \in Results, expected \in Vals :
         \E msg \in MsgsOf(form) :
           /\ call' = [macro |-> "assert_err_eq", form |-> form, cond |-> cond,
                       expected |-> expected, msg |-> msg]
           /\ out' = assert_err_eq(rustc_1_11, form, cond, expected, msg, std_fmt)
           /\ alive' = ~out'.panicked
    /\ UNCHANGED <<rustc_1_11, debug_assertions, std_fmt>>

CallDebugAssertErrEq ==
    /\ alive
    /\ \E form \in Forms, cond \in Results, expected \in Vals :
         \E msg \in MsgsOf(form) :
           /\ call' = [macro |-> "debug_assert_err_eq", form |-> form, cond |-> cond,
                       expected |-> expected, msg |-> msg]
           /\ out' = debug_assert_err_eq(debug_assertions, rustc_1_11, form, cond,
                                         expected, msg, std_fmt)
           /\ alive' = ~out'.panicked
    /\ UNCHANGED <<rustc_1_11, debug_assertions, std_fmt>>

Next == CallAssertErrEq \/ CallDebugAssertErrEq

Spec == Init /\ [][Next]_vars

TypeOK ==
    /\ rustc_1_11 \in BOOLEAN
    /\ debug_assertions \in BOOLEAN
    /\ std_fmt \in StdFmts
    /\ alive \in BOOLEAN
    /\ out.panicked \in BOOLEAN
    /\ alive = ~out.panicked

(***************************************************************************)
(* Vocabulary of the properties.                                           *)
(***************************************************************************)
\* sub occurs in m as a contiguous run of tokens.
Contains(m, sub) ==
    \E i \in 0..(Len(m) - Len(sub)) : SubSeq(m, i + 1, i + Len(sub)) = sub

\* tok occurs in m and sub occurs somewhere after it.
FollowedBy(m, tok, sub) ==
    \E i \in 1..Len(m) : m[i] = tok /\ Contains(SubSeq(m, i + 1, Len(m)), sub)

Count(events, e) == Cardinality({i \in 1..Len(events) : events[i] = e})

IsAssert == call.macro = "assert_err_eq"

IsDebugAssert == call.macro = "debug_assert_err_eq"

\* The call under way has outcome Err(e) and e differs from the expected value.
Mismatch == call.cond.tag = "Err" /\ call.cond.val # call.expected

\* The run of assert_err_eq on the arguments of the call under way, with the
\* given cfg flag and call form.
SameArgs(flag, form) ==
    assert_err_eq(flag, form, call.cond, call.expected,
                  IF form = "message" THEN call.msg ELSE NoMsg, std_fmt)

\* C1: assert_err_eq on Err(e) with e equal to the expected value does not
\* panic and the call has the value e, in every call form and build.
C1_EqualReturnsPayload ==
    (IsAssert /\ call.cond.tag = "Err" /\ call.cond.val = call.expected)
        => (~out.panicked /\ alive /\ out.value = call.cond.val)

C1_Witness ==
    /\ IsAssert /\ call.form = "trailing" /\ ~debug_assertions
    /\ call.cond = Err(I32(1)) /\ call.expected = I32(1)
    /\ out.value = I32(1)

\* C2: assert_err_eq on Ok(v) always panics, in every call form and build,
\* and the message has "expected Err(..)" followed by the debug rendering of
\* the whole Ok(v).
C2_OkAlwaysPanics ==
    (IsAssert /\ call.cond.tag = "Ok")
        => /\ out.panicked /\ ~alive
           /\ FollowedBy(out.message, "expected Err(..)", DebugResult(call.cond))

C2_Witness ==
    /\ IsAssert /\ ~debug_assertions /\ call.cond = Ok(Unit)
    /\ out.panicked
    /\ Contains(out.message, <<"expected Err(..)", ", got ", "Ok", "(", "(", ")", ")">>)

\* C3: assert_err_eq on Err(e) with e different from the expected value x
\* panics with the report of assert_eq! on e and x (with or without the
\* custom message), which names e and x, and not with the "expected Err(..)"
\* message.
C3_MismatchPanicsWithEqReport ==
    (IsAssert /\ Mismatch)
        => /\ out.panicked /\ ~alive
           /\ out.message \in
                {AssertEqReport(call.cond.val, call.expected, m, std_fmt) : m \in {NoMsg, call.msg}}
           /\ FollowedBy(out.message, Head(AssertEqReport(I32(0), I32(1), NoMsg, std_fmt)),
                         DebugVal(call.cond.val))
           /\ Contains(out.message, DebugVal(call.expected))
           /\ ~Contains(out.message, <<"expected Err(..)">>)

C3_Witness ==
    /\ IsAssert /\ call.form = "plain"
    /\ call.cond = Err(I32(1)) /\ call.expected = I32(2)
    /\ out.panicked
    /\ Contains(out.message, <<"1">>) /\ Contains(out.message, <<"2">>)

\* C4 as stated: assert_err_eq with a custom message on Err(e), e different
\* from the expected value, panics with a message containing the formatted
\* custom message.
C4_Original ==
    (IsAssert /\ call.form = "message" /\ Mismatch)
        => (out.panicked /\ Contains(out.message, Format(call.msg)))

\* C4 amended: the custom message is in the report when the rustc_1_11
\* expansion is compiled; under not(rustc_1_11) the panic carries the plain
\* report of assert_eq! without the custom message.
C4_MessageForwardedUnder_1_11 ==
    (IsAssert /\ call.form = "message" /\ Mismatch)
        => /\ out.panicked
           /\ rustc_1_11 => Contains(out.message, <<": ">> \o Format(call.msg))
           /\ ~rustc_1_11 =>
                out.message = AssertEqReport(call.cond.val, call.expected, NoMsg, std_fmt)

C4_Witness ==
    /\ IsAssert /\ call.form = "message" /\ rustc_1_11
    /\ call.cond = Err(I32(1)) /\ call.expected = I32(2)
    /\ call.msg = [fmt |-> <<"foo">>, args |-> <<>>]
    /\ out.panicked /\ Contains(out.message, <<"foo">>)

\* C5: in a build without debug assertions debug_assert_err_eq never panics
\* and runs nothing of the check: $cond is not evaluated, nothing is compared.
C5_ReleaseDebugAssertIsNoOp ==
    (IsDebugAssert /\ ~debug_assertions)
        => (~out.panicked /\ alive /\ out.events = <<>>)

C5_Witness ==
    /\ IsDebugAssert /\ ~debug_assertions
    /\ call.cond.tag = "Ok" /\ call.form = "message"
    /\ alive

\* C6 as stated: in a build with debug assertions debug_assert_err_eq does
\* what assert_err_eq does on the same arguments, value of the call included.
C6_Original ==
    (IsDebugAssert /\ debug_assertions) => out = SameArgs(rustc_1_11, call.form)

\* C6 amended: in a build with debug assertions debug_assert_err_eq panics in
\* the same cases and with the same message as assert_err_eq and performs the
\* same steps, but the value of the call is () and not the payload.
C6_DebugSameChecksUnitValue ==
    (IsDebugAssert /\ debug_assertions)
        => /\ out.panicked = SameArgs(rustc_1_11, call.form).panicked
           /\ out.message = SameArgs(rustc_1_11, call.form).message
           /\ out.events = SameArgs(rustc_1_11, call.form).events
           /\ out.value = Unit

C6_Witness ==
    /\ IsDebugAssert /\ debug_assertions
    /\ call.cond = Err(I32(1)) /\ call.expected = I32(1)
    /\ ~out.panicked /\ out.value = Unit
    /\ SameArgs(rustc_1_11, call.form).value = I32(1)

\* C7: the trailing-comma form does what the two-argument form does on the
\* same arguments: same steps, same panic and message, same value.
C7_TrailingCommaSameAsPlain ==
    (IsAssert /\ call.form = "trailing")
        => out = SameArgs(rustc_1_11, "plain")

C7_Witness ==
    /\ IsAssert /\ call.form = "trailing"
    /\ call.cond = Err(I32(2)) /\ call.expected = I32(2)
    /\ out.value = I32(2) /\ alive

\* C8: on Ok(v) the panic message is exactly
\* "assertion failed, expected Err(..), got <debug of Ok(v)>", followed by
\* ": " and the formatted custom message when one was given; and giving a
\* custom message does not change whether the call panics.
C8_WrongVariantMessageExact ==
    IsAssert =>
        /\ (call.cond.tag = "Ok" /\ call.form # "message") =>
              out.message = <<"assertion failed, ", "expected Err(..)", ", got ">>
                              \o DebugResult(call.cond)
        /\ (call.cond.tag = "Ok" /\ call.form = "message") =>
              out.message = <<"assertion failed, ", "expected Err(..)", ", got ">>
                              \o DebugResult(call.cond) \o <<": ">> \o Format(call.msg)
        /\ call.form = "message" =>
              out.panicked = SameArgs(rustc_1_11, "plain").panicked

C8_Witness ==
    /\ IsAssert /\ call.form = "message" /\ call.cond = Ok(I32(-1))
    /\ call.msg = [fmt |-> <<"Everything is good with ", "{:?}">>, args |-> <<I32(2)>>]
    /\ out.message = <<"assertion failed, ", "expected Err(..)", ", got ",
                       "Ok", "(", "-", "1", ")", ": ", "Everything is good with ", "2">>

\* C9: every call of assert_err_eq evaluates $cond exactly once, and does so
\* before it compares with the expected value and before it panics.
C9_CondEvaluatedOnceFirst ==
    IsAssert =>
        /\ Count(out.events, "eval_cond") = 1
        /\ \A i \in 1..Len(out.events) :
              out.events[i] \in {"compare", "panic", "eval_expected", "format_args"}
                 => \E j \in 1..(i - 1) : out.events[j] = "eval_cond"

C9_Witness ==
    /\ IsAssert /\ call.form = "message" /\ Mismatch
    /\ out.panicked
    /\ Count(out.events, "compare") = 1 /\ Count(out.events, "panic") = 1

\* C10 as stated: the rustc_1_11 and not(rustc_1_11) expansions agree on
\* panic, value and message for every call.
C10_Original ==
    IsAssert =>
        /\ out.panicked = SameArgs(~rustc_1_11, call.form).panicked
        /\ out.value = SameArgs(~rustc_1_11, call.form).value
        /\ out.message = SameArgs(~rustc_1_11, call.form).message

\* C10 amended: the two expansions agree on panic and value for every call,
\* and on the message except for a custom-message call on Err(e) with e
\* different from the expected value, where only the rustc_1_11 expansion
\* puts the custom message in the report.
C10_ExpansionsAgreeExceptForwarding ==
    IsAssert =>
        /\ out.panicked = SameArgs(~rustc_1_11, call.form).panicked
        /\ out.value = SameArgs(~rustc_1_11, call.form).value
        /\ ~(call.form = "message" /\ Mismatch)
              => out.message = SameArgs(~rustc_1_11, call.form).message
        /\ (call.form = "message" /\ Mismatch)
              => /\ SameArgs(TRUE, "message").message =
                      AssertEqReport(call.cond.val, call.expected, call.msg, std_fmt)
                 /\ SameArgs(FALSE, "message").message =
                      AssertEqReport(call.cond.val, call.expected, NoMsg, std_fmt)

C10_Witness ==
    /\ IsAssert /\ call.form = "message" /\ call.cond.tag = "Ok"
    /\ out.panicked
    /\ out.message = SameArgs(~rustc_1_11, "message").message
    /\ Contains(out.message, Format(call.msg))

====
